---- MODULE Spec2Model ----
(***************************************************************************)
(* Text2SQL: a question is turned into a SQL string by composing a prompt  *)
(* from a schema file and sending it to a remote model.  The model covers  *)
(* the schema provider (utils/schema_loader.py), the logging setup         *)
(* (utils/config.py), the remote client (reasoning/openai_client.py) and   *)
(* the first generator (main.py, SQLQueryGenerator).                       *)
(*                                                                         *)
(* Text is modelled by TLA+ strings; Len, \o, SubSeq, Head and Tail are    *)
(* the string operations of the Sequences module.                          *)
(***************************************************************************)
EXTENDS Integers, Sequences, FiniteSets, TLC

VARIABLES handlers, level, setupCalls, configured, req, out, pc

vars == <<handlers, level, setupCalls, configured, req, out, pc>>

(***************************************************************************)
(* Bounds                                                                  *)
(***************************************************************************)
\* setup_logger is invoked at most this many times in one process
MaxSetupCalls == 3
\* generation requests submitted in one run
MaxRequests == 2

None == "<None>"

(***************************************************************************)
(* Python str methods                                                      *)
(***************************************************************************)
IsSpace(c) == c \in {" ", "\n", "\t"}

RECURSIVE lstrip(_)
lstrip(s) == IF s = "" THEN ""
             ELSE IF IsSpace(Head(s)) THEN lstrip(Tail(s)) ELSE s

RECURSIVE rstrip(_)
rstrip(s) == IF s = "" THEN ""
             ELSE IF IsSpace(SubSeq(s, Len(s), Len(s)))
                  THEN rstrip(SubSeq(s, 1, Len(s) - 1)) ELSE s

strip(s) == rstrip(lstrip(s))

UpperLetters == "ABCDEFGHIJKLMNOPQRSTUVWXYZ"
LowerLetters == "abcdefghijklmnopqrstuvwxyz"

lowerChar(c) ==
    IF \E i \in 1..26 : SubSeq(UpperLetters, i, i) = c
    THEN LET i == CHOOSE i \in 1..26 : SubSeq(UpperLetters, i, i) = c
         IN SubSeq(LowerLetters, i, i)
    ELSE c

RECURSIVE lower(_)
lower(s) == IF s = "" THEN "" ELSE lowerChar(Head(s)) \o lower(Tail(s))

startswith(s, p) == Len(s) >= Len(p) /\ SubSeq(s, 1, Len(p)) = p

\* s.find(sub): the first index (1-based) at which sub occurs in s, 0 if none
find(s, sub) ==
    LET Hits == {i \in 1..(Len(s) - Len(sub) + 1) :
                    SubSeq(s, i, i + Len(sub) - 1) = sub}
    IN IF Hits = {} THEN 0 ELSE CHOOSE i \in Hits : \A j \in Hits : i <= j

\* s.split(sep, maxsplit); maxsplit = -1 splits at every occurrence
RECURSIVE split(_, _, _)
split(s, sep, maxsplit) ==
    LET i == find(s, sep)
    IN IF maxsplit = 0 \/ i = 0 THEN <<s>>
       ELSE <<SubSeq(s, 1, i - 1)>> \o
            split(SubSeq(s, i + Len(sep), Len(s)), sep,
                  IF maxsplit < 0 THEN maxsplit ELSE maxsplit - 1)

(***************************************************************************)
(* Outcomes of a call: a returned value or an exception that escapes       *)
(***************************************************************************)
Return(v) == [kind |-> "return", value |-> v]
Raise(cls, detail) == [kind |-> "raise", value |-> cls, detail |-> detail]

(***************************************************************************)
(* Logging (utils/config.py, Python's logging)                             *)
(***************************************************************************)
LOG_FILE == "./logs/sql_generation.log"
BASIC_FILE == "sql_generation.log"

NOTSET == 0
DEBUG == 10
INFO == 20
WARNING == 30
ERROR == 40

\* setup_logger(None) is the root logger; the others are module names
LoggerNames == {"root", "utils.schema_loader", "test"}

\* logging.Logger.parent
Parent(n) == "root"

\* the loggers a record passes through: the logger, then its ancestors
Chain(n) == IF n = "root" THEN <<"root">> ELSE <<n, Parent(n)>>

\* logging.Logger.getEffectiveLevel
getEffectiveLevel(lv, n) ==
    LET c == Chain(n)
        Set == {i \in 1..Len(c) : lv[c[i]] # NOTSET}
    IN IF Set = {} THEN NOTSET
       ELSE lv[c[CHOOSE i \in Set : \A j \in Set : i <= j]]

RECURSIVE CountFile(_, _)
CountFile(hs, file) ==
    IF hs = <<>> THEN 0
    ELSE (IF Head(hs) = file THEN 1 ELSE 0) + CountFile(Tail(hs), file)

RECURSIVE SumChain(_, _, _)
SumChain(h, c, file) ==
    IF c = <<>> THEN 0
    ELSE CountFile(h[Head(c)], file) + SumChain(h, Tail(c), file)

\* Logger.log / callHandlers: the number of lines one record written through
\* logger n at level levelno appends to file
LinesWritten(h, lv, n, levelno, file) ==
    IF levelno >= getEffectiveLevel(lv, n)
    THEN SumChain(h, Chain(n), file) ELSE 0

\* logging.basicConfig(filename=..., level=DEBUG): does nothing when the root
\* logger already has a handler
basicConfigHandlers(h) ==
    IF h["root"] = <<>> THEN [h EXCEPT !["root"] = <<BASIC_FILE>>] ELSE h

basicConfigLevel(h, lv) ==
    IF h["root"] = <<>> THEN [lv EXCEPT !["root"] = DEBUG] ELSE lv

\* setup_logger: the handlers after the call
setup_logger_handlers(h, name) ==
    IF h[name] = <<>> THEN [h EXCEPT ![name] = Append(@, LOG_FILE)] ELSE h

\* setup_logger: logger.setLevel(logging.INFO)
setup_logger_level(lv, name) == [lv EXCEPT ![name] = INFO]

(***************************************************************************)
(* Schema provider (utils/schema_loader.py, main.py)                       *)
(***************************************************************************)
\* what open(path, 'r', encoding='utf-8') followed by read() can meet
SchemaFileStates == {"present", "missing", "unreadable", "undecodable"}

SchemaTexts == {"erDiagram\n orders { string order_id }",
                "erDiagram\n sellers ||--o{ orders : has"}

\* open(...) and file.read()
OpenRead(fs, text) ==
    CASE fs = "missing"     -> Raise("FileNotFoundError", "No such file or directory")
      [] fs = "unreadable"  -> Raise("PermissionError", "Permission denied")
      [] fs = "undecodable" -> Raise("UnicodeDecodeError", "invalid start byte")
      [] OTHER              -> Return(text)

\* get_schema of SchemaLoader and of SQLQueryGenerator: res is what the caller
\* gets, errors the number of error records logged
get_schema(fs, text) ==
    LET r == OpenRead(fs, text)
    IN IF r.kind = "raise" /\ r.value = "FileNotFoundError"
       THEN [res |-> Return(""), errors |-> 1]
       ELSE [res |-> r, errors |-> 0]

(***************************************************************************)
(* Category translations (utils/schema_loader.py)                          *)
(***************************************************************************)
\* the reference database: whether sqlite3.connect succeeds, whether the
\* table product_category_name_translation exists
DbStates == {"ok", "cannot_open", "no_table"}

\* rows of the table: <<product_category_name, product_category_name_english>>
RowLists == { <<>>,
              << <<"beleza_saude", "health_beauty">> >>,
              << <<"beleza_saude", "health_beauty">>,
                 <<"informatica_acessorios", "computers_accessories">> >>,
              << <<"casa_conforto", "home_comfort">>,
                 <<"casa_conforto_2", "home_comfort">> >> }

\* a variant with key and value exchanged: row[0]: row[1]
DictItem_swapped(row) == [key |-> row[1], value |-> row[2]]

\* row[1]: row[0], with the 0-based indices of the source
DictItem(row) == [key |-> row[2], value |-> row[1]]

\* {row[1]: row[0] for row in rows}: a later row replaces an earlier one
\* with the same key
RECURSIVE DictOfRows(_)
DictOfRows(rows) ==
    IF rows = <<>> THEN <<>>
    ELSE LET last == DictItem(rows[Len(rows)])
             d == DictOfRows(SubSeq(rows, 1, Len(rows) - 1))
         IN [k \in (DOMAIN d) \cup {last.key} |->
                IF k = last.key THEN last.value ELSE d[k]]

\* read_product_categories: res is what the caller gets, opened and closed
\* count the connections opened and closed, errors the error records logged
read_product_categories(db, rows) ==
    LET connected == db # "cannot_open"
        \* the try block
        body == IF ~connected
                THEN Raise("OperationalError", "unable to open database file")
                ELSE IF db = "no_table"
                THEN Raise("OperationalError",
                           "no such table: product_category_name_translation")
                ELSE Return(DictOfRows(rows))
        \* except FileNotFoundError
        caught == body.kind = "raise" /\ body.value = "FileNotFoundError"
        handled == IF caught THEN Return(<<>>) ELSE body
        \* finally: if sqlite3_conn: sqlite3_conn.close()
        \* the name sqlite3_conn is bound only when connect returned
        res == IF connected THEN handled
               ELSE Raise("UnboundLocalError",
                          "local variable 'sqlite3_conn' referenced before assignment")
    IN [res |-> res,
        opened |-> IF connected THEN 1 ELSE 0,
        closed |-> IF connected THEN 1 ELSE 0,
        releaseFailed |-> ~connected,
        errors |-> IF caught THEN 1 ELSE 0]

(***************************************************************************)
(* The remote service and the structured replies                           *)
(***************************************************************************)
\* openai.APIError and its subclasses (connection, timeout, status errors);
\* pydantic's ValidationError and the built-in errors are not among them
APIErrorClasses == {"APIConnectionError", "APITimeoutError", "AuthenticationError"}

IsAPIError(cls) == cls \in APIErrorClasses

\* failures of the remote call; detail is str(e)
RemoteFailures ==
    { [kind |-> "fail", cls |-> "APITimeoutError", detail |-> "timeout"],
      [kind |-> "fail", cls |-> "AuthenticationError", detail |-> "invalid api key"] }

\* a JSON object of string-valued and literal-valued members
Member(key, text) == "\"" \o key \o "\":" \o text
Quoted(s) == "\"" \o s \o "\""

HasKey(content, key) == find(content, "\"" \o key \o "\":") > 0

\* the string value of a member
JsonGet(content, key) ==
    LET pat == "\"" \o key \o "\":\""
        i == find(content, pat)
        rest == SubSeq(content, i + Len(pat), Len(content))
        e == find(rest, "\"")
    IN SubSeq(rest, 1, e - 1)

\* the fields of the response formats, all required (no defaults)
SQLGeneratorFields == {"steps", "query"}
QueryProcessorFields == {"query", "expanded_query", "explanation"}

\* the content of a structured reply carrying the given final query
GenerationContent(query) ==
    "{" \o Member("steps", "[]") \o "," \o Member("query", Quoted(query)) \o "}"

ExpansionContent(query, expanded) ==
    "{" \o Member("query", Quoted(query)) \o ","
        \o Member("expanded_query", Quoted(expanded)) \o ","
        \o Member("explanation", Quoted("exact name")) \o "}"

\* client.beta.chat.completions.parse(response_format=...): a failure of the
\* call raises; a reply whose content does not validate against the response
\* format raises pydantic's ValidationError; a refusal has no content
parse(remote, fields) ==
    IF remote.kind = "fail" THEN Raise(remote.cls, remote.detail)
    ELSE IF remote.content = None THEN Return(None)
    ELSE IF \E k \in fields : ~HasKey(remote.content, k)
    THEN Raise("ValidationError", "Field required")
    ELSE Return(remote.content)

(***************************************************************************)
(* Prompts (prompts/prompt.py, prompts/base.py, main.py).  The fixed text  *)
(* of the templates is abridged to its headings; every interpolation is    *)
(* kept in place.  A backquote of the source is written as a quote (').   *)
(***************************************************************************)
\* FewShotExample.render
render(example) ==
    "User: " \o example.input \o "\nAssistant: " \o example.output \o "\n"

\* DefineFewShotExamples.get_few_shot_prompts (the SQL bodies are abridged)
get_few_shot_prompts ==
    << [input |-> "How many customers have placed orders worth more than $5000 in total?",
        output |-> "'''sql\nSELECT ... AS high_value_customers FROM (...) AS customer_totals;\n'''"],
       [input |-> "Which seller has the highest number of orders delivered to Rio de Janeiro?",
        output |-> "'''sql\nSELECT s.seller_id FROM sellers s ... LIMIT 1;\n'''"],
       [input |-> "What is the most expensive product category based on average price?",
        output |-> "'''sql\nSELECT p.product_category_name FROM products p ... LIMIT 1;\n'''"],
       [input |-> "Which city has the highest average freight value per order?",
        output |-> "'''sql\nSELECT c.customer_city FROM customers c ... LIMIT 1;'''"] >>

\* "\n".join(parts)
RECURSIVE join(_, _)
join(sep, parts) ==
    IF parts = <<>> THEN ""
    ELSE IF Len(parts) = 1 THEN parts[1]
    ELSE parts[1] \o sep \o join(sep, Tail(parts))

\* a variant that keeps only the first 16 characters of the schema
SystemPrompt_to_prompt_truncated(db_schema, examples, portugese_category_translation) ==
    LET few_shot_examples == join("\n", [i \in 1..Len(examples) |-> render(examples[i])])
    IN "\nYou are an expert in SQL, SQLite databases, and data analysis.\n"
       \o "### **SQL Query Guidelines**\n"
       \o "- **If a table/column does not exist, respond with:** '\"SQL query cannot be written for this.\"'\n"
       \o "### Database schema is attached below.\n'''mermaid\n"
       \o (IF Len(db_schema) > 16 THEN SubSeq(db_schema, 1, 16) ELSE db_schema)
       \o "\n'''\n### **Product Category Translation**\nIf there are product category translations in "
       \o portugese_category_translation
       \o ",\nthen use the exact Portuguese name in the SQL query.\n---\n### **Here are some examples**: \n"
       \o few_shot_examples
       \o "\n"

\* SystemPrompt.to_prompt(portugese_category_translation)
SystemPrompt_to_prompt(db_schema, examples, portugese_category_translation) ==
    LET few_shot_examples == join("\n", [i \in 1..Len(examples) |-> render(examples[i])])
    IN "\nYou are an expert in SQL, SQLite databases, and data analysis.\n"
       \o "### **SQL Query Guidelines**\n"
       \o "- **If a table/column does not exist, respond with:** '\"SQL query cannot be written for this.\"'\n"
       \o "### Database schema is attached below.\n'''mermaid\n"
       \o db_schema
       \o "\n'''\n### **Product Category Translation**\nIf there are product category translations in "
       \o portugese_category_translation
       \o ",\nthen use the exact Portuguese name in the SQL query.\n---\n### **Here are some examples**: \n"
       \o few_shot_examples
       \o "\n"

\* UserPrompt.to_prompt
UserPrompt_to_prompt(query) ==
    "\n## Generate a SQL query to answer the following question:\n### **User Question**\n\""
    \o query
    \o "\"\n### **Expected Output**\n- **Do NOT include Markdown formatting, code block, backticks, or explanations** in the response.\n"

\* str(x) as an f-string formats an argument
Str(x) == IF x = None THEN "None" ELSE x

\* a call system_prompt.to_prompt(*args): the method has one required
\* positional parameter besides self, and no default for it
SystemPrompt_to_prompt_call(db_schema, examples, args) ==
    IF Len(args) # 1
    THEN Raise("TypeError",
               "to_prompt() missing 1 required positional argument: 'portugese_category_translation'")
    ELSE Return(SystemPrompt_to_prompt(db_schema, examples, Str(args[1])))

\* the system prompt of SQLQueryGenerator.generate_sql_query
LegacySystemPrompt(schema) ==
    "\nYou are an expert in SQL, SQLite databases, and data analysis.\n"
    \o "### **SQL Query Guidelines**\n"
    \o "- **If a table/column does not exist, respond with:** '\"SQL query cannot be written for this.\"'\n"
    \o "### Database schema is attached below.\n'''mermaid\n"
    \o schema
    \o "\n'''\n"

\* the user prompt of SQLQueryGenerator.generate_sql_query
LegacyUserPrompt(query_text, column_name, column_type) ==
    "\n## Generate a SQL query to answer the following question:\n### **User Question**\n\""
    \o query_text
    \o "\"\n### **Expected Output**\n- **Ensure that the query returns column '"
    \o column_name \o "' of type '" \o column_type \o "'.**\n"

\* a variant that lists the user message first
Messages_user_first(system_prompt, user_prompt) ==
    << [role |-> "user", content |-> user_prompt],
       [role |-> "system", content |-> system_prompt] >>

Messages(system_prompt, user_prompt) ==
    << [role |-> "system", content |-> system_prompt],
       [role |-> "user", content |-> user_prompt] >>

(***************************************************************************)
(* The remote client (reasoning/openai_client.py)                          *)
(***************************************************************************)
\* a variant with the check of lines 110-111 (commented out in the source)
\* switched on
get_response_select_only(remote) ==
    LET response == parse(remote, SQLGeneratorFields)
    IN IF response.kind = "raise"
       THEN IF IsAPIError(response.value)
            THEN Return("OpenAI API error : " \o response.detail)
            ELSE response
       ELSE IF response.value = None
       THEN Raise("AttributeError", "'NoneType' object has no attribute 'strip'")
       ELSE LET sql_query == strip(response.value)
            IN IF ~(startswith(lower(sql_query), "select")
                    \/ startswith(lower(sql_query), "with"))
               THEN Return("Only SELECT queries are allowed.")
               ELSE Return(sql_query)

\* OpenAIClient.get_response, from the reply of the remote call on
get_response(remote) ==
    LET response == parse(remote, SQLGeneratorFields)
    IN IF response.kind = "raise"
       THEN \* except openai.APIError as e
            IF IsAPIError(response.value)
            THEN Return("OpenAI API error : " \o response.detail)
            ELSE response
       ELSE IF response.value = None
       THEN \* response.choices[0].message.content is None
            Raise("AttributeError", "'NoneType' object has no attribute 'strip'")
       ELSE Return(strip(response.value))

\* the parsed CategoryExpansion object of a validated reply
QueryProcessorOf(content) ==
    [query |-> JsonGet(content, "query"),
     expanded_query |-> JsonGet(content, "expanded_query"),
     explanation |-> JsonGet(content, "explanation")]

\* expand_and_translate_categories, lines 61-74: the two prompts and the
\* message list; product_categories is the text the f-string puts in
expand_messages(query, product_categories) ==
    Messages("You are an assistant that maps English Product category names\n"
             \o "to exact Portuguese database category names. \n"
             \o "Database categories include: " \o product_categories
             \o " where the key\nis the English name and the value is the Portuguese name.\n"
             \o "Respond with \"This query does not contain any product categories to expand.\" \n"
             \o "if there are no product categories in the query.",
             "Identify the product categories in the query and\n"
             \o "expand them to their exact Portuguese names. \n\nQuery: " \o query)

\* a variant that repeats the call once after a failure
expand_with_retry(remotes) ==
    LET first == parse(remotes[1], QueryProcessorFields)
        response == IF first.kind = "raise"
                    THEN parse(remotes[2], QueryProcessorFields) ELSE first
    IN [calls |-> IF first.kind = "raise" THEN 2 ELSE 1,
        res |-> IF response.kind = "raise" THEN response
                ELSE IF response.value = None THEN Return(None)
                ELSE Return(QueryProcessorOf(response.value))]

\* OpenAIClient.expand_and_translate_categories; remotes[i] is what the
\* service would answer to the i-th call, calls the number of calls made
expand_and_translate_categories(remotes) ==
    LET response == parse(remotes[1], QueryProcessorFields)
    IN [calls |-> 1,
        res |-> IF response.kind = "raise" THEN response
                ELSE IF response.value = None THEN Return(None)
                ELSE Return(QueryProcessorOf(response.value))]

(***************************************************************************)
(* The first generator (main.py, SQLQueryGenerator.generate_sql_query)     *)
(***************************************************************************)
\* lines 54-95: the two unpacking assignments and the prompts
generate_sql_query_compose(question, schema) ==
    LET parts == split(question, "? ", 1)
    IN IF Len(parts) # 2
       THEN Raise("ValueError", "not enough values to unpack (expected 2, got 1)")
       ELSE LET query_text == parts[1]
                fields == split(parts[2], ":", -1)
            IN IF Len(fields) # 2
               THEN Raise("ValueError", "wrong number of values to unpack")
               ELSE Return(Messages(LegacySystemPrompt(schema),
                                    LegacyUserPrompt(query_text, fields[1], fields[2])))

\* client.chat.completions.create: no response format, nothing validated
create(remote) ==
    IF remote.kind = "fail" THEN Raise(remote.cls, remote.detail)
    ELSE Return(remote.content)

\* lines 97-110: from the reply of the remote call on
generate_sql_query_finish(remote) ==
    LET response == create(remote)
        body == IF response.kind = "raise" THEN response
                ELSE IF response.value = None
                THEN Raise("AttributeError", "'NoneType' object has no attribute 'strip'")
                ELSE LET sql_query == strip(response.value)
                     IN IF ~(startswith(lower(sql_query), "select")
                             \/ startswith(lower(sql_query), "with"))
                        THEN Return("Only SELECT queries are allowed.")
                        ELSE Return(sql_query)
    IN \* except Exception as e
       IF body.kind = "raise"
       THEN Return("OpenAI API error : " \o body.detail)
       ELSE body

(***************************************************************************)
(* The entry point answer_question(question): compose, call get_response,  *)
(* take the query field of the structured result.                          *)
(***************************************************************************)
NoQuery == "No query found in response"

\* the string handed to the caller, from what get_response gave
ExtractQuery(generated) ==
    IF generated.kind = "raise" THEN generated
    ELSE IF startswith(generated.value, "OpenAI API error : ") THEN generated
    ELSE IF ~HasKey(generated.value, "query") THEN Return(NoQuery)
    ELSE IF JsonGet(generated.value, "query") = "" THEN Return(NoQuery)
    ELSE Return(JsonGet(generated.value, "query"))

(***************************************************************************)
(* Inputs                                                                  *)
(***************************************************************************)
\* questions as the tests write them ("...? [type: name]") and others
Questions == {"Which seller has delivered the most orders? [string: seller_id]",
              "How many orders were delivered",
              "When is the deadline? [string: 12:30]"}

\* the schema argument: a schema text, or "" after a failed load
SchemaArgs == {"erDiagram\n orders { string order_id }", ""}

\* the category hint interpolated into the system prompt
Hints == {"None", "health_beauty -> beleza_saude"}

StepsText == "[{\"explanation\":\"count rows\",\"output\":\"SELECT 2\"}]"

\* content of the replies to get_response
ClientContents ==
    { GenerationContent("SELECT 1"),
      "\n " \o GenerationContent("SELECT 1") \o "\n",
      "{" \o Member("steps", StepsText) \o "," \o Member("query", Quoted("SELECT 1")) \o "}",
      GenerationContent("SELECT seller_id FROM sellers"),
      GenerationContent("DROP TABLE orders"),
      GenerationContent(""),
      "{" \o Member("steps", "[]") \o "}",
      None }

\* content of the replies to generate_sql_query
LegacyContents ==
    { "SELECT 1", "  select 1\n", "WITH t AS (SELECT 1) SELECT x FROM t",
      "DROP TABLE orders", "SQL query cannot be written for this.", "", None }

\* content of the replies to expand_and_translate_categories
ExpandContents ==
    { ExpansionContent("reviews of health_beauty", "beleza_saude"),
      ExpansionContent("orders per city",
                       "This query does not contain any product categories to expand."),
      "{" \o Member("query", Quoted("orders per city")) \o "}",
      None }

\* the query argument of the expander
ExpandQueries == {"reviews of health_beauty", "orders per city"}

\* str(product_categories), the category mapping as the f-string prints it
CategoryTexts == {"{'health_beauty': 'beleza_saude'}"}

\* what the service would answer to a second call of the expander
ExpandRetryRemotes ==
    { [kind |-> "fail", cls |-> "APITimeoutError", detail |-> "timeout"] }

Replies(contents) == [kind : {"reply"}, content : contents]

ClientRemotes == RemoteFailures \cup Replies(ClientContents)
LegacyRemotes == RemoteFailures \cup Replies(LegacyContents)
ExpandRemotes == RemoteFailures \cup Replies(ExpandContents)

(***************************************************************************)
(* State                                                                   *)
(***************************************************************************)
NoOutcome == [kind |-> "none"]

NoRequest == [id |-> 0, impl |-> None, question |-> None, schema |-> None,
              phase |-> "NONE", calls |-> 0, messages |-> <<>>,
              remote |-> NoOutcome, generated |-> NoOutcome, result |-> NoOutcome]

Terminal == {"SUCCEEDED", "FAILED"}

\* threads that may call setup_logger at the same time
Threads == 1..MaxSetupCalls

\* the position of a thread that is not inside setup_logger
NotInSetup == [at |-> "idle", name |-> None]

\* the process is between requests: the remote call is synchronous
Idle == req.phase \in Terminal \cup {"NONE"}

\* the state of a request whose call has ended with outcome result
PhaseOf(result) ==
    IF result.kind = "return" /\ ~startswith(result.value, "OpenAI API error : ")
    THEN "SUCCEEDED" ELSE "FAILED"

\* a process that has imported utils.schema_loader: line 7 of that module
\* calls setup_logger(__name__)
Init ==
    /\ handlers = setup_logger_handlers([n \in LoggerNames |-> <<>>],
                                        "utils.schema_loader")
    /\ level = setup_logger_level([n \in LoggerNames |->
                                     IF n = "root" THEN WARNING ELSE NOTSET],
                                  "utils.schema_loader")
    /\ setupCalls = 1
    /\ configured = {"utils.schema_loader"}
    /\ req = NoRequest
    /\ out = [op |-> "none"]
    /\ pc = [t \in Threads |-> NotInSetup]

(***************************************************************************)
(* Logging operations                                                      *)
(***************************************************************************)
\* setup_logger(name); name None is the root logger
setup_logger(name) ==
    /\ Idle
    /\ setupCalls < MaxSetupCalls
    /\ handlers' = setup_logger_handlers(handlers, name)
    /\ level' = setup_logger_level(level, name)
    /\ setupCalls' = setupCalls + 1
    /\ configured' = configured \cup {name}
    /\ UNCHANGED <<pc, req, out>>

\* setup_logger(name) run by thread t, lines 25-34: the handler objects are
\* built, the logger is looked up and its level set
setup_logger_enter(t, name) ==
    /\ pc[t].at = "idle"
    /\ setupCalls < MaxSetupCalls
    /\ level' = setup_logger_level(level, name)
    /\ setupCalls' = setupCalls + 1
    /\ pc' = [pc EXCEPT ![t] = [at |-> "check", name |-> name]]
    /\ UNCHANGED <<handlers, configured, req, out>>

\* line 37: if not logger.handlers
setup_logger_check(t) ==
    /\ pc[t].at = "check"
    /\ pc' = [pc EXCEPT ![t].at = IF handlers[pc[t].name] = <<>>
                                  THEN "add" ELSE "done"]
    /\ configured' = IF handlers[pc[t].name] = <<>>
                     THEN configured ELSE configured \cup {pc[t].name}
    /\ UNCHANGED <<handlers, level, setupCalls, req, out>>

\* line 38: logger.addHandler(handler); the handler is the thread's own new
\* object, which addHandler finds in no list and appends
setup_logger_add(t) ==
    /\ pc[t].at = "add"
    /\ handlers' = [handlers EXCEPT ![pc[t].name] = Append(@, LOG_FILE)]
    /\ configured' = configured \cup {pc[t].name}
    /\ pc' = [pc EXCEPT ![t].at = "done"]
    /\ UNCHANGED <<level, setupCalls, req, out>>

\* import main: logging.basicConfig(filename="sql_generation.log", level=DEBUG)
import_main ==
    /\ Idle
    /\ handlers' = basicConfigHandlers(handlers)
    /\ level' = basicConfigLevel(handlers, level)
    /\ UNCHANGED <<pc, setupCalls, configured, req, out>>

\* one logger.info(...) or logger.error(...) through a logger that
\* setup_logger returned
log_call(name, levelno) ==
    /\ Idle
    /\ name \in configured
    /\ out' = [op |-> "log", logger |-> name, levelno |-> levelno,
               setups |-> setupCalls,
               lines |-> LinesWritten(handlers, level, name, levelno, LOG_FILE)]
    /\ UNCHANGED <<pc, handlers, level, setupCalls, configured, req>>

(***************************************************************************)
(* Schema provider operations                                              *)
(***************************************************************************)
SchemaLoader_get_schema(fs, text) ==
    /\ Idle
    /\ LET r == get_schema(fs, text)
       IN out' = [op |-> "SchemaLoader.get_schema", file |-> fs, res |-> r.res,
                  errors |-> r.errors,
                  lines |-> r.errors * LinesWritten(handlers, level,
                                "utils.schema_loader", ERROR, LOG_FILE)]
    /\ UNCHANGED <<pc, handlers, level, setupCalls, configured, req>>

\* the class lives in main.py, whose import has run logging.basicConfig
SQLQueryGenerator_get_schema(fs, text) ==
    /\ Idle
    /\ handlers' = basicConfigHandlers(handlers)
    /\ level' = basicConfigLevel(handlers, level)
    /\ LET r == get_schema(fs, text)
       IN out' = [op |-> "SQLQueryGenerator.get_schema", file |-> fs, res |-> r.res,
                  errors |-> r.errors,
                  lines |-> r.errors * LinesWritten(handlers', level', "root",
                                                    ERROR, BASIC_FILE)]
    /\ UNCHANGED <<pc, setupCalls, configured, req>>

SchemaLoader_read_product_categories(db, rows) ==
    /\ Idle
    /\ LET r == read_product_categories(db, rows)
       IN out' = [op |-> "read_product_categories", db |-> db, rows |-> rows,
                  res |-> r.res, opened |-> r.opened, closed |-> r.closed,
                  releaseFailed |-> r.releaseFailed, errors |-> r.errors]
    /\ UNCHANGED <<pc, handlers, level, setupCalls, configured, req>>

(***************************************************************************)
(* Category expander                                                       *)
(***************************************************************************)
OpenAIClient_expand_and_translate_categories(query, product_categories, remotes) ==
    /\ Idle
    /\ LET r == expand_and_translate_categories(remotes)
       IN out' = [op |-> "expand", remote |-> remotes[1],
                  messages |-> expand_messages(query, product_categories),
                  calls |-> r.calls, res |-> r.res]
    /\ UNCHANGED <<pc, handlers, level, setupCalls, configured, req>>

(***************************************************************************)
(* Generation requests                                                     *)
(***************************************************************************)
NewRequest(impl, question, schema) ==
    [NoRequest EXCEPT !.id = req.id + 1, !.impl = impl, !.question = question,
                      !.schema = schema, !.phase = "COMPOSING"]

\* SQLQueryGenerator(...).generate_sql_query(question, schema) is entered
submit_generate_sql_query(question, schema) ==
    /\ Idle
    /\ req.id < MaxRequests
    /\ req' = NewRequest("generate_sql_query", question, schema)
    /\ handlers' = basicConfigHandlers(handlers)
    /\ level' = basicConfigLevel(handlers, level)
    /\ UNCHANGED <<pc, setupCalls, configured, out>>

\* generate_sql_query up to the remote call
generate_sql_query_call ==
    /\ req.impl = "generate_sql_query"
    /\ req.phase = "COMPOSING"
    /\ LET c == generate_sql_query_compose(req.question, req.schema)
       IN req' = IF c.kind = "raise"
                 THEN [req EXCEPT !.phase = "FAILED", !.generated = c, !.result = c]
                 ELSE [req EXCEPT !.phase = "AWAITING_RESPONSE",
                                  !.messages = c.value, !.calls = @ + 1]
    /\ UNCHANGED <<pc, handlers, level, setupCalls, configured, out>>

\* generate_sql_query from the end of the remote call on
generate_sql_query_return(remote) ==
    /\ req.impl = "generate_sql_query"
    /\ req.phase = "AWAITING_RESPONSE"
    /\ LET r == generate_sql_query_finish(remote)
       IN req' = [req EXCEPT !.remote = remote, !.generated = r, !.result = r,
                             !.phase = PhaseOf(r)]
    /\ UNCHANGED <<pc, handlers, level, setupCalls, configured, out>>

\* answer_question(question) is entered
submit_answer_question(question, schema) ==
    /\ Idle
    /\ req.id < MaxRequests
    /\ req' = NewRequest("answer_question", question, schema)
    /\ UNCHANGED <<pc, handlers, level, setupCalls, configured, out>>

\* answer_question up to the remote call: the two prompts, then get_response
answer_question_call(hint) ==
    /\ req.impl = "answer_question"
    /\ req.phase = "COMPOSING"
    /\ req' = [req EXCEPT !.phase = "AWAITING_RESPONSE", !.calls = @ + 1,
                          !.messages = Messages(
                              SystemPrompt_to_prompt(req.schema,
                                                     get_few_shot_prompts, hint),
                              UserPrompt_to_prompt(req.question))]
    /\ UNCHANGED <<pc, handlers, level, setupCalls, configured, out>>

\* get_response from the end of the remote call on, then the extraction
answer_question_return(remote) ==
    /\ req.impl = "answer_question"
    /\ req.phase = "AWAITING_RESPONSE"
    /\ LET g == get_response(remote)
           r == ExtractQuery(g)
       IN req' = [req EXCEPT !.remote = remote, !.generated = g, !.result = r,
                             !.phase = PhaseOf(r)]
    /\ UNCHANGED <<pc, handlers, level, setupCalls, configured, out>>

(***************************************************************************)
(* Prompt rendering                                                        *)
(***************************************************************************)
\* the examples field of a SystemPrompt: the default [], or the library
ExampleLists == {<<>>, get_few_shot_prompts}

\* the arguments of a to_prompt call: none, None, or a translation note
HintArgs == {<<>>, <<None>>, <<"health_beauty -> beleza_saude">>}

\* SystemPrompt(db_schema=..., examples=...).to_prompt(*args)
SystemPrompt_render(db_schema, examples, args) ==
    /\ Idle
    /\ out' = [op |-> "SystemPrompt.to_prompt", db_schema |-> db_schema,
               examples |-> Len(examples), args |-> args,
               res |-> SystemPrompt_to_prompt_call(db_schema, examples, args)]
    /\ UNCHANGED <<pc, handlers, level, setupCalls, configured, req>>

\* UserPrompt(query=...).to_prompt()
UserPrompt_render(query) ==
    /\ Idle
    /\ out' = [op |-> "UserPrompt.to_prompt", query |-> query,
               res |-> Return(UserPrompt_to_prompt(query))]
    /\ UNCHANGED <<pc, handlers, level, setupCalls, configured, req>>

\* the prompt composer: the two prompt classes, and the prompts that
\* generate_sql_query builds itself
NextPrompts ==
    \/ \E s \in SchemaArgs, e \in ExampleLists, a \in HintArgs :
          SystemPrompt_render(s, e, a)
    \/ \E q \in Questions : UserPrompt_render(q)
    \/ \E q \in Questions, s \in SchemaArgs : submit_generate_sql_query(q, s)
    \/ generate_sql_query_call

\* setup_logger called from several threads, step by step
NextSetupRace ==
    \E t \in Threads :
        \/ \E name \in LoggerNames : setup_logger_enter(t, name)
        \/ setup_logger_check(t)
        \/ setup_logger_add(t)

\* the logging setup and the schema provider
NextProvider ==
    \/ \E name \in LoggerNames : setup_logger(name)
    \/ import_main
    \/ \E name \in LoggerNames, levelno \in {INFO, ERROR} : log_call(name, levelno)
    \/ \E fs \in SchemaFileStates, text \in SchemaTexts :
          SchemaLoader_get_schema(fs, text)
    \/ \E fs \in SchemaFileStates, text \in SchemaTexts :
          SQLQueryGenerator_get_schema(fs, text)
    \/ \E db \in DbStates, rows \in RowLists :
          SchemaLoader_read_product_categories(db, rows)

\* the remote client and the generation requests
NextGenerator ==
    \/ \E q \in ExpandQueries, c \in CategoryTexts,
          r1 \in ExpandRemotes, r2 \in ExpandRetryRemotes :
          OpenAIClient_expand_and_translate_categories(q, c, <<r1, r2>>)
    \/ \E q \in Questions, s \in SchemaArgs : submit_generate_sql_query(q, s)
    \/ generate_sql_query_call
    \/ \E remote \in LegacyRemotes : generate_sql_query_return(remote)
    \/ \E q \in Questions, s \in SchemaArgs : submit_answer_question(q, s)
    \/ \E hint \in Hints : answer_question_call(hint)
    \/ \E remote \in ClientRemotes : answer_question_return(remote)

Next == NextProvider \/ NextGenerator \/ NextPrompts \/ NextSetupRace

\* the two components share no state that either reads from the other, and
\* are explored apart
SpecProvider == Init /\ [][NextProvider]_vars

SpecGenerator == Init /\ [][NextGenerator]_vars

SpecPrompts == Init /\ [][NextPrompts]_vars

SpecSetupRace == Init /\ [][NextSetupRace]_vars

Spec == Init /\ [][Next]_vars

(***************************************************************************)
(* Properties                                                              *)
(***************************************************************************)
\* the remote call of the request has been made and has ended
Answered == req.phase \in Terminal /\ req.remote.kind # "none"

\* what the remote call of the request gave: a response or an exception
CallOutcome ==
    IF req.impl = "generate_sql_query" THEN create(req.remote)
    ELSE parse(req.remote, SQLGeneratorFields)

\* C1: whenever the remote call of the generator fails (the transport, the
\* authentication, or the validation of the reply against the response
\* format), the generator does not raise but returns the string
\* "OpenAI API error : <detail>".
C1_FailureBecomesErrorString ==
    (Answered /\ CallOutcome.kind = "raise")
        => req.generated = Return("OpenAI API error : " \o CallOutcome.detail)

\* the reply is a structured result with both fields, whose query is q
StructuredReplyWithQuery(q) ==
    /\ req.impl = "answer_question"
    /\ Answered
    /\ req.remote.kind = "reply"
    /\ req.remote.content # None
    /\ \A k \in SQLGeneratorFields : HasKey(req.remote.content, k)
    /\ JsonGet(req.remote.content, "query") = q

C3_MissingQueryGivesSentinel ==
    ( /\ req.impl = "answer_question"
      /\ Answered
      /\ req.remote.kind = "reply"
      /\ req.remote.content # None
      /\ \/ ~HasKey(req.remote.content, "query")
         \/ JsonGet(req.remote.content, "query") = "" )
        => req.result = Return(NoQuery)

\* C4: when the database cannot be opened or the translation table does not
\* exist, read_product_categories returns an empty mapping, logs an error and
\* does not raise.
C4_LookupFailureGivesEmptyMapping ==
    (out.op = "read_product_categories" /\ out.db \in {"cannot_open", "no_table"})
        => (out.res = Return(<<>>) /\ out.errors >= 1)

\* C5: on every exit path of read_product_categories every connection it
\* opened has been closed, and the release step does not fail when no
\* connection was opened.
C5_ConnectionReleased ==
    out.op = "read_product_categories"
        => (out.closed = out.opened /\ (out.opened = 0 => ~out.releaseFailed))

IsGetSchema == out.op \in {"SchemaLoader.get_schema", "SQLQueryGenerator.get_schema"}

\* C6: when the schema file does not exist get_schema returns "", logs exactly
\* one error entry and does not raise; and get_schema does not raise for any
\* state of the file.
C6_SchemaLoadNeverRaises ==
    IsGetSchema
        => /\ out.res.kind = "return"
           /\ out.file = "missing" => (out.res = Return("") /\ out.errors = 1)

\* C7: after setup_logger has been invoked two or more times, with the same or
\* with different names, one log call (at INFO or above, through a logger that
\* setup_logger returned) writes exactly one line to the log file.
C7_OneLinePerLogCall ==
    (out.op = "log" /\ out.setups >= 2) => out.lines = 1

\* C8: every question-answering call ends by returning a non-empty string;
\* no question and no failure makes it raise.
C8_AlwaysNonEmptyString ==
    req.phase \in Terminal
        => (req.result.kind = "return" /\ req.result.value # "")

RequestStep ==
    IF req'.id # req.id
    THEN \* a new request starts composing, with no call made
         req'.phase = "COMPOSING" /\ req'.calls = 0
    ELSE \/ req' = req
         \/ /\ req.phase = "COMPOSING"
            /\ req'.phase = "AWAITING_RESPONSE"
            /\ req'.calls = 1
         \/ /\ req.phase = "AWAITING_RESPONSE"
            /\ req'.phase \in Terminal
            /\ req'.calls = 1

\* C10: every generation request goes COMPOSING, AWAITING_RESPONSE, then one
\* of SUCCEEDED and FAILED, and stays there; it issues exactly one remote
\* call and a failed call is not repeated.
C10_RequestStateMachine == [][RequestStep]_vars

\* the roles of a message list, in order
Roles(messages) == [i \in 1..Len(messages) |-> messages[i].role]

\* C11: every remote call (of generate_sql_query, of answer_question and of
\* the category expander) sends exactly two messages, the first with role
\* "system" and the second with role "user".
C11_SystemThenUser ==
    /\ req.calls >= 1 => Roles(req.messages) = <<"system", "user">>
    /\ out.op = "expand" => Roles(out.messages) = <<"system", "user">>

\* a request of each generator and a call of the expander have sent messages
C11_Witness ==
    /\ req.calls = 1
    /\ req.impl = "generate_sql_query"
    /\ Len(req.messages) = 2
    /\ out.op = "expand"
    /\ Len(out.messages) = 2

\* generate_sql_query has composed the prompts of the request
LegacyComposed == req.impl = "generate_sql_query" /\ req.calls >= 1

SystemRendered == out.op = "SystemPrompt.to_prompt" /\ out.res.kind = "return"

\* C12: for every schema text S the rendered system prompt contains S
\* verbatim, as one contiguous substring.
C12_SchemaVerbatim ==
    /\ SystemRendered => find(out.res.value, out.db_schema) > 0
    /\ LegacyComposed => find(req.messages[1].content, req.schema) > 0

\* both system prompts have been rendered with a schema that is not empty
C12_Witness ==
    /\ SystemRendered
    /\ out.db_schema # ""
    /\ LegacyComposed
    /\ req.schema # ""

\* C13: the system prompt can be rendered without a category-translation
\* hint (no argument, or None), and the prompt rendered so carries no
\* category-translation note.
C13_HintIsOptional ==
    (out.op = "SystemPrompt.to_prompt" /\ out.args \in {<<>>, <<None>>})
        => /\ out.res.kind = "return"
           /\ find(out.res.value, "Product Category Translation") = 0

\* C14: for every question the rendered user prompt contains the literal
\* question text unchanged, in UserPrompt.to_prompt and in
\* generate_sql_query.
C14_QuestionVerbatim ==
    /\ out.op = "UserPrompt.to_prompt" => find(out.res.value, out.query) > 0
    /\ LegacyComposed => find(req.messages[2].content, req.question) > 0

\* the lookup has read the table and returned its mapping
LookupSucceeded ==
    out.op = "read_product_categories" /\ out.db = "ok" /\ out.res.kind = "return"

\* C15: on success the lookup returns a mapping that holds, for every row
\* (localName, englishName) of the table, the entry englishName -> localName,
\* and holds no other entry.
C15_EveryRowIsAnEntry ==
    LookupSucceeded =>
        LET m == out.res.value
            rows == out.rows
        IN /\ \A i \in 1..Len(rows) :
                 rows[i][2] \in DOMAIN m /\ m[rows[i][2]] = rows[i][1]
           /\ \A k \in DOMAIN m :
                 \E i \in 1..Len(rows) : rows[i][2] = k /\ rows[i][1] = m[k]

\* C15 amended: on success the mapping holds the entry
\* englishName -> localName for every row whose englishName no later row
\* repeats, and no other entry: of the rows with one englishName the last
\* one read wins.
C15_LastRowWins ==
    LookupSucceeded =>
        LET m == out.res.value
            rows == out.rows
            IsLast(i) == \A j \in (i + 1)..Len(rows) : rows[j][2] # rows[i][2]
        IN /\ \A i \in 1..Len(rows) :
                 IsLast(i) => rows[i][2] \in DOMAIN m /\ m[rows[i][2]] = rows[i][1]
           /\ \A k \in DOMAIN m :
                 \E i \in 1..Len(rows) : IsLast(i) /\ rows[i][2] = k

\* the lookup has read two rows with one englishName and kept the second
C15_Witness ==
    /\ LookupSucceeded
    /\ Len(out.rows) = 2
    /\ out.rows[1][2] = out.rows[2][2]
    /\ out.rows[1][1] # out.rows[2][1]
    /\ out.res.value[out.rows[2][2]] = out.rows[2][1]

\* every thread that called setup_logger(n) has returned, and one has
SetupEnded(n) ==
    /\ \E t \in Threads : pc[t].name = n
    /\ \A t \in Threads : pc[t].name = n => pc[t].at = "done"

\* C18: when several threads call setup_logger for one logger name at the
\* same time, then in every interleaving of their check and add steps the
\* logger ends with exactly one handler.
C18_OneHandlerInEveryInterleaving ==
    \A n \in LoggerNames : SetupEnded(n) => Len(handlers[n]) = 1

\* a string the generator may hand back according to the check of
\* main.py:105-106
SelectOrWith(s) ==
    \/ startswith(lower(strip(s)), "select")
    \/ startswith(lower(strip(s)), "with")

Permitted(s) ==
    \/ SelectOrWith(s)
    \/ s = "Only SELECT queries are allowed."
    \/ startswith(s, "OpenAI API error : ")

\* C19: every string the query generator returns (generate_sql_query,
\* get_response, and the entry point built on it) is a reply that begins,
\* after trimming, with "select" or "with" in any case, or the literal
\* "Only SELECT queries are allowed.", or an "OpenAI API error : " message.
C19_OnlySelectOrWithReturned ==
    Answered =>
        /\ req.generated.kind = "return" => Permitted(req.generated.value)
        /\ req.result.kind = "return" => Permitted(req.result.value)

RefusalSentence == "SQL query cannot be written for this."

\* C20: when the model's reply is the refusal sentence of the prompt, the
\* query generator returns that sentence unchanged.
C20_RefusalReturnedUnchanged ==
    (/\ Answered
     /\ req.impl = "generate_sql_query"
     /\ req.remote.kind = "reply"
     /\ req.remote.content # None
     /\ strip(req.remote.content) = RefusalSentence)
        => req.result = Return(RefusalSentence)

====
